---- MODULE Spec2Model ----
(***************************************************************************)
(* Model of JointPointerMath.h: the offset planner JointPointerTotalSize,  *)
(* the resolver JointPointerWrite and the JointPointerAllocate overloads.  *)
(* size_t and pointers are unsigned integers of SizeBits bits; nullptr is  *)
(* the address 0.  A call is one atomic action (the library is purely      *)
(* sequential).  The allocator callback is the environment: it returns any *)
(* address of Bases, null included; the caller may also call the planner   *)
(* and the resolver on their own, in any order.                            *)
(***************************************************************************)
EXTENDS Integers, Sequences, FiniteSets, TLC

\* ---- bounds ----
SizeBits == 6
MaxNum == 2

SizeMod == 2 ^ SizeBits
\* std::numeric_limits<std::size_t>::max()
SIZE_MAX == SizeMod - 1
NullPtr == 0

\* inputs
Sizes == {0, 5, 8, SIZE_MAX}
Alignments == {1, 4, 8}
\* values an Offset field can hold before planning: 0 from the three-argument
\* constructor, anything after the default constructor
Garbage == {0, 3}
\* addresses the allocator callback may return (0 = failure)
Bases == {NullPtr, 4}
\* values of the Num argument that make an empty request sequence
EmptyNums == {-1, 0}

SlotIds == 1 .. MaxNum

VARIABLES
    Elems,      \* the JointPointer_t array / initializer_list of the caller
    slots,      \* the caller's pointer variables, *Elems[i].Pointer
    OutSize,    \* the caller's size_t variable that OutSize may point to
    Memory,     \* base address of the last call: what the allocator callback
                \* returned, or the Memory argument of JointPointerWrite
    ret,        \* return value of the last call
    op,         \* the last function called
    Num,        \* number of requests passed to the last call
    status,     \* "running", or "assert" once an assertion has aborted the program
    allocArgs,  \* positional arguments of the callback invocation of the last call
    allocCount, \* callback invocations during the last call
    written     \* slots stored to during the last call

vars == <<Elems, slots, OutSize, Memory, ret, op, Num, status, allocArgs,
          allocCount, written>>

\* ---- size_t arithmetic ----
Wrap(x) == x % SizeMod

\* JointPointer_t(void** P, size_t Sz, size_t Align), Offset as found in memory
JointPointer_t(P, Sz, Align, Off) ==
    [Pointer |-> P, Size |-> Sz, Alignment |-> Align, Offset |-> Off]

AlignedAddr_NoRound(p, a) == p
\* (intptr - 1 + align) & -align, for align a power of two
AlignedAddr(p, a) ==
    LET x == Wrap(p - 1 + a) IN x - (x % a)

\* std::align(alignment, size, ptr, space): the returned pointer, null when
\* size bytes aligned to alignment do not fit in space bytes starting at ptr
StdAlign(a, sz, p, space) ==
    IF space < sz THEN NullPtr
    ELSE LET al == AlignedAddr(p, a)
             diff == Wrap(al - p)
         IN IF diff > space - sz THEN NullPtr ELSE al

\* JOINTPOINTERMATH_ASSERT(Num > 0)
AssertNum_Off(n) == n >= 0
AssertNum(n) == n > 0

\* the loop of JointPointerTotalSize from index i with cursor Ptr
RECURSIVE TotalSizeLoop(_, _, _, _)
TotalSizeLoop(E, i, n, Ptr) ==
    IF i > n THEN [Elems |-> E, Ptr |-> Ptr]
    ELSE LET P1 == StdAlign(E[i].Alignment, E[i].Size, Ptr, SIZE_MAX)
         IN TotalSizeLoop([E EXCEPT ![i].Offset = P1], i + 1, n,
                          Wrap(P1 + E[i].Size))

\* the outcome of a call: ok is FALSE when the assertion on Num aborted it
\* before any store
PlanResult(ok, E, Ptr) == [ok |-> ok, Elems |-> E, Ptr |-> Ptr]

JointPointerTotalSize_Stale(n, E) ==
    IF ~AssertNum(n) THEN PlanResult(FALSE, E, NullPtr)
    ELSE LET r == TotalSizeLoop(E, 1, n, E[1].Offset)
         IN PlanResult(TRUE, r.Elems, r.Ptr)
\* JointPointerTotalSize(Num, Elems): the array with its offsets, and the total
JointPointerTotalSize(n, E) ==
    IF ~AssertNum(n) THEN PlanResult(FALSE, E, NullPtr)
    ELSE LET r == TotalSizeLoop(E, 1, n, NullPtr)
         IN PlanResult(TRUE, r.Elems, r.Ptr)

\* the loop of JointPointerWrite from index i
RECURSIVE WriteLoop(_, _, _, _, _)
WriteLoop(Mem, E, i, n, S) ==
    IF i > n THEN S
    ELSE WriteLoop(Mem, E, i + 1, n,
                   [S EXCEPT ![E[i].Pointer] = Wrap(Mem + E[i].Offset)])

\* JointPointerWrite(Memory, Num, Elems): the slots after the call; ok is
\* FALSE when the assertion on Num aborted it before any store
JointPointerWrite(Mem, n, E, S) ==
    IF ~AssertNum(n) THEN [ok |-> FALSE, slots |-> S]
    ELSE [ok |-> TRUE, slots |-> WriteLoop(Mem, E, 1, n, S)]

\* first loop of the initializer_list overloads ("Determine total size")
RECURSIVE IniSizeLoop(_, _, _)
IniSizeLoop(ini, i, Ptr) ==
    IF i > Len(ini) THEN Ptr
    ELSE LET P1 == StdAlign(ini[i].Alignment, ini[i].Size, Ptr, SIZE_MAX)
         IN IniSizeLoop(ini, i + 1, Wrap(P1 + ini[i].Size))

IniTotalSize(ini) == IniSizeLoop(ini, 1, NullPtr)

\* second loop of the initializer_list overloads ("Write pointers")
RECURSIVE IniWriteLoop(_, _, _, _, _)
IniWriteLoop(Mem, ini, i, Ptr, S) ==
    IF i > Len(ini) THEN S
    ELSE LET P1 == StdAlign(ini[i].Alignment, ini[i].Size, Ptr, SIZE_MAX)
         IN IniWriteLoop(Mem, ini, i + 1, Wrap(P1 + ini[i].Size),
                         [S EXCEPT ![ini[i].Pointer] = Wrap(Mem + P1)])

IniWrite_NoReset(Mem, ini, S) == IniWriteLoop(Mem, ini, 1, IniTotalSize(ini), S)
IniWrite(Mem, ini, S) == IniWriteLoop(Mem, ini, 1, NullPtr, S)

\* the slots a call over the first n requests stores to
Pointers(E, n) == {E[i].Pointer : i \in 1 .. n}

\* ---- initial states ----
\* request i writes the caller's i-th pointer variable
MakeElems(sz, al, g) ==
    [i \in 1 .. Len(sz) |-> JointPointer_t(i, sz[i], al[i], g)]

Init ==
    /\ \E k \in 0 .. MaxNum :
         \E sz \in [1 .. k -> Sizes], al \in [1 .. k -> Alignments], g \in Garbage :
            Elems = MakeElems(sz, al, g)
    /\ slots = [s \in SlotIds |-> NullPtr]
    /\ OutSize = 0
    /\ Memory = NullPtr
    /\ ret = 0
    /\ op = "none"
    /\ Num = 0
    /\ status = "running"
    /\ allocArgs = <<>>
    /\ allocCount = 0
    /\ written = {}

\* a failed JOINTPOINTERMATH_ASSERT: assert() aborts the program
Abort(name, n) ==
    /\ status' = "assert"
    /\ op' = name
    /\ Num' = n
    /\ allocArgs' = <<>>
    /\ allocCount' = 0
    /\ written' = {}
    /\ UNCHANGED <<Elems, slots, OutSize, Memory, ret>>

\* the values of Num a caller can pass with the array Elems
NumArgs == IF Len(Elems) = 0 THEN EmptyNums ELSE EmptyNums \cup {Len(Elems)}

\* size_t JointPointerTotalSize(int Num, JointPointer_t* Elems)
TotalSizeBody(name, n) ==
    LET r == JointPointerTotalSize(n, Elems)
    IN IF ~r.ok THEN Abort(name, n)
       ELSE /\ Elems' = r.Elems
            /\ ret' = r.Ptr
            /\ op' = name
            /\ Num' = n
            /\ allocArgs' = <<>>
            /\ allocCount' = 0
            /\ written' = {}
            /\ UNCHANGED <<slots, OutSize, Memory, status>>

TotalSize ==
    /\ status = "running"
    /\ \E n \in NumArgs : TotalSizeBody("TotalSize", n)

\* template<int Num> size_t JointPointerTotalSize(JointPointer_t (&Arr)[Num]):
\* Num is the length of the array, which C++ requires to be positive
TotalSizeRef ==
    /\ status = "running"
    /\ Len(Elems) > 0
    /\ TotalSizeBody("TotalSizeRef", Len(Elems))

\* void JointPointerWrite(void* Memory, int Num, JointPointer_t* Elems), called
\* by the caller with a buffer of its own; the Offset fields are read as they are
Write ==
    /\ status = "running"
    /\ \E n \in NumArgs, mem \in Bases :
         LET w == JointPointerWrite(mem, n, Elems, slots)
         IN IF ~w.ok THEN Abort("Write", n)
            ELSE /\ slots' = w.slots
                 /\ written' = Pointers(Elems, n)
                 /\ Memory' = mem
                 /\ op' = "Write"
                 /\ Num' = n
                 /\ allocArgs' = <<>>
                 /\ allocCount' = 0
                 /\ UNCHANGED <<Elems, OutSize, ret, status>>

\* void* JointPointerAllocate(size_t* OutSize, void* (*Alloc)(size_t Size), int Num, JointPointer_t* Elems)
\* (the assertions of the nested JointPointerTotalSize and JointPointerWrite
\* repeat the one on Num that has passed)
AllocatePlainBody(name, n) ==
    IF ~AssertNum(n) THEN Abort(name, n)
    ELSE \E hasOut \in BOOLEAN, mem \in Bases :
         LET r == JointPointerTotalSize(n, Elems)
             TotalSize_ == r.Ptr
         IN /\ Elems' = r.Elems
            /\ OutSize' = IF hasOut THEN TotalSize_ ELSE OutSize
            /\ allocArgs' = <<TotalSize_>>
            /\ allocCount' = 1
            /\ Memory' = mem
            /\ slots' = JointPointerWrite(mem, n, r.Elems, slots).slots
            /\ written' = Pointers(r.Elems, n)
            /\ ret' = mem
            /\ op' = name
            /\ Num' = n
            /\ UNCHANGED status

AllocatePlainArray ==
    /\ status = "running"
    /\ \E n \in NumArgs : AllocatePlainBody("AllocatePlainArray", n)

\* template<int Num> void* JointPointerAllocate(OutSize, Alloc(size), JointPointer_t (&Arr)[Num])
AllocatePlainRef ==
    /\ status = "running"
    /\ Len(Elems) > 0
    /\ AllocatePlainBody("AllocatePlainRef", Len(Elems))

\* void* JointPointerAllocate(size_t* OutSize, void* (*Alloc)(size_t Size, size_t Alignment), int Num, JointPointer_t* Elems)
AllocateAlignedBody(name, n) ==
    IF ~AssertNum(n) THEN Abort(name, n)
    ELSE \E hasOut \in BOOLEAN, mem \in Bases :
         LET r == JointPointerTotalSize(n, Elems)
             TotalSize_ == r.Ptr
         IN /\ Elems' = r.Elems
            /\ OutSize' = IF hasOut THEN TotalSize_ ELSE OutSize
            /\ allocArgs' = <<r.Elems[1].Alignment, TotalSize_>>
            /\ allocCount' = 1
            /\ Memory' = mem
            /\ slots' = JointPointerWrite(mem, n, r.Elems, slots).slots
            /\ written' = Pointers(r.Elems, n)
            /\ ret' = mem
            /\ op' = name
            /\ Num' = n
            /\ UNCHANGED status

AllocateAlignedArray ==
    /\ status = "running"
    /\ \E n \in NumArgs : AllocateAlignedBody("AllocateAlignedArray", n)

\* template<int Num> void* JointPointerAllocate(OutSize, Alloc(size, alignment), JointPointer_t (&Arr)[Num])
AllocateAlignedRef ==
    /\ status = "running"
    /\ Len(Elems) > 0
    /\ AllocateAlignedBody("AllocateAlignedRef", Len(Elems))

\* void* JointPointerAllocate(size_t* OutSize, void* (*Alloc)(size_t size), std::initializer_list<JointPointer_t> ini)
AllocatePlainIni ==
    /\ status = "running"
    /\ IF ~AssertNum(Len(Elems)) THEN Abort("AllocatePlainIni", Len(Elems))
       ELSE \E hasOut \in BOOLEAN, mem \in Bases :
              LET TotalSize_ == IniTotalSize(Elems)
              IN /\ OutSize' = IF hasOut THEN TotalSize_ ELSE OutSize
                 /\ allocArgs' = <<TotalSize_>>
                 /\ allocCount' = 1
                 /\ Memory' = mem
                 /\ slots' = IniWrite(mem, Elems, slots)
                 /\ written' = Pointers(Elems, Len(Elems))
                 /\ ret' = NullPtr
                 /\ op' = "AllocatePlainIni"
                 /\ Num' = Len(Elems)
                 /\ UNCHANGED <<Elems, status>>

\* void* JointPointerAllocate(size_t* OutSize, void* (*Alloc)(size_t size, size_t alignment), std::initializer_list<JointPointer_t> ini)
AllocateAlignedIni ==
    /\ status = "running"
    /\ IF ~AssertNum(Len(Elems)) THEN Abort("AllocateAlignedIni", Len(Elems))
       ELSE \E hasOut \in BOOLEAN, mem \in Bases :
              LET TotalSize_ == IniTotalSize(Elems)
              IN /\ OutSize' = IF hasOut THEN TotalSize_ ELSE OutSize
                 /\ allocArgs' = <<TotalSize_, Elems[1].Alignment>>
                 /\ allocCount' = 1
                 /\ Memory' = mem
                 /\ slots' = IniWrite(mem, Elems, slots)
                 /\ written' = Pointers(Elems, Len(Elems))
                 /\ ret' = NullPtr
                 /\ op' = "AllocateAlignedIni"
                 /\ Num' = Len(Elems)
                 /\ UNCHANGED <<Elems, status>>

Next ==
    \/ TotalSize
    \/ TotalSizeRef
    \/ Write
    \/ AllocatePlainArray
    \/ AllocatePlainRef
    \/ AllocateAlignedArray
    \/ AllocateAlignedRef
    \/ AllocatePlainIni
    \/ AllocateAlignedIni

Spec == Init /\ [][Next]_vars

\* ---- vocabulary of the properties ----
PlannerOps == {"TotalSize", "TotalSizeRef"}
ArrayOps == {"AllocatePlainArray", "AllocatePlainRef",
             "AllocateAlignedArray", "AllocateAlignedRef"}
IniOps == {"AllocatePlainIni", "AllocateAlignedIni"}
AlignedOps == {"AllocateAlignedArray", "AllocateAlignedRef", "AllocateAlignedIni"}
AllocOps == ArrayOps \cup IniOps

\* the last call was one of ops and returned
Done(ops) == status = "running" /\ op \in ops

\* the last call ran JointPointerTotalSize over Elems, whose Offset fields hold its result
Planned == Done(PlannerOps \cup ArrayOps)

\* the total and the offsets JointPointerTotalSize computes for the requests of the last call
PlanOf == JointPointerTotalSize(Num, Elems)

\* the slots were resolved from planned offsets: by an allocate, or by
\* JointPointerWrite on requests whose Offset fields hold the plan
Resolved ==
    \/ Done(AllocOps)
    \/ Done({"Write"}) /\ Elems = PlanOf.Elems

\* the bump-with-alignment planner of the specification, over the unbounded integers
RoundUp(x, a) == ((x + a - 1) \div a) * a
RECURSIVE RefOffset(_, _)
RefOffset(E, i) ==
    IF i = 1 THEN 0
    ELSE RoundUp(RefOffset(E, i - 1) + E[i - 1].Size, E[i].Alignment)
RefTotal(E, n) == RefOffset(E, n) + E[n].Size

\* Elems with every Offset field overwritten by g
WithOffsets(E, g) == [i \in 1 .. Len(E) |-> [E[i] EXCEPT !.Offset = g]]

\* C1: after JointPointerTotalSize has processed a non-empty sequence, every
\* request's offset is a multiple of its alignment.
C1_OffsetsAligned ==
    Planned => \A i \in 1 .. Num : Elems[i].Offset % Elems[i].Alignment = 0

\* C1 witness: a planned two-request sequence where padding was inserted.
C1_Witness ==
    /\ Planned
    /\ Num >= 2
    /\ Elems[2].Alignment > 1
    /\ Elems[2].Offset > Elems[1].Offset + Elems[1].Size

\* C2 (as stated): after planning, for every pair i < j in sequence order
\* Offset[i] + Size[i] <= Offset[j], whatever the sizes.
C2_NoOverlap ==
    Planned =>
        \A i, j \in 1 .. Num :
            i < j => Elems[i].Offset + Elems[i].Size <= Elems[j].Offset

\* C3 (as stated): the planner equals the reference bump-with-alignment
\* planner: Offset[1] = 0, each later offset is the smallest multiple of its
\* alignment at or after the end of the previous request, and the total is
\* the end of the last request.
C3_EqualsReference ==
    Done(PlannerOps) =>
        /\ \A i \in 1 .. Num : Elems[i].Offset = RefOffset(Elems, i)
        /\ ret = RefTotal(Elems, Num)

\* C4 (as stated): when the base address is a multiple of the first request's
\* alignment, every output slot holds a multiple of its own request's alignment.
C4_ResolvedAligned ==
    (Resolved /\ Memory % Elems[1].Alignment = 0) =>
        \A i \in 1 .. Num : slots[Elems[i].Pointer] % Elems[i].Alignment = 0

\* C5 (as stated): a JointPointerAllocate call whose allocator returns null
\* leaves every output slot with the value it held before the call.
C5_NoWriteOnFailure ==
    [][(op' \in AllocOps /\ status' = "running" /\ allocCount' = 1
            /\ Memory' = NullPtr)
        => slots' = slots]_vars

\* C6 (as stated): every JointPointerAllocate overload returns the base
\* address its allocator callback returned.
C6_ReturnsBase ==
    Done(AllocOps) => ret = Memory

\* C7: after a successful allocate with base B, slot i holds B + offset[i],
\* offset[i] being what JointPointerTotalSize computes for the same requests,
\* in the array overloads and in the initializer_list overloads alike.
C7_SlotsAreBasePlusOffset ==
    (Done(AllocOps) /\ Memory # NullPtr) =>
        \A i \in 1 .. Num :
            slots[Elems[i].Pointer] = Wrap(Memory + PlanOf.Elems[i].Offset)

\* C7 witness: an initializer_list allocate succeeded on two requests, the
\* second of them placed after padding.
C7_Witness ==
    /\ Done(IniOps)
    /\ Memory # NullPtr
    /\ Num >= 2
    /\ PlanOf.Elems[2].Offset > Elems[1].Size
    /\ slots[Elems[2].Pointer] > slots[Elems[1].Pointer]

\* C8: a call with an empty request sequence (of the planner, of an allocate
\* overload, and of the resolver as well) ends in the failed assertion,
\* with no callback invocation and no store to a slot, to *OutSize or to an
\* Offset field.
C8_EmptyAborts ==
    [][(Num' <= 0) =>
        /\ status' = "assert"
        /\ allocCount' = 0
        /\ written' = {}
        /\ UNCHANGED <<slots, OutSize, Memory, Elems, ret>>]_vars

\* C8 witness: an initializer_list allocate on an empty list was aborted.
C8_Witness ==
    /\ status = "assert"
    /\ op \in IniOps
    /\ Num = 0
    /\ allocCount = 0

\* C9 (as stated): each allocate invokes the callback once with the planned
\* total as Size, and the alignment-aware overloads pass the first request's
\* alignment as Alignment, the callback being Alloc(Size, Alignment).
C9_CallbackArguments ==
    Done(AllocOps) =>
        /\ allocCount = 1
        /\ allocArgs[1] = PlanOf.Ptr
        /\ (op \in AlignedOps => allocArgs = <<PlanOf.Ptr, Elems[1].Alignment>>)

\* C10: the result of JointPointerTotalSize depends only on the ordered
\* (Size, Alignment) pairs: any Offset values stored beforehand give the same
\* total and offsets, a second call in a row repeats the first, and the call
\* changes no Size, Alignment or Pointer field and no output slot.
C10_StoredOffsetsIgnored ==
    Done(PlannerOps) =>
        \A g \in Garbage \cup {ret, SIZE_MAX} :
            /\ JointPointerTotalSize(Num, WithOffsets(Elems, g)).Ptr = ret
            /\ JointPointerTotalSize(Num, WithOffsets(Elems, g)).Elems = Elems

C10_CallFrame ==
    (op' \in PlannerOps /\ status' = "running") =>
        /\ Len(Elems') = Len(Elems)
        /\ \A i \in 1 .. Len(Elems) :
              /\ Elems'[i].Size = Elems[i].Size
              /\ Elems'[i].Alignment = Elems[i].Alignment
              /\ Elems'[i].Pointer = Elems[i].Pointer
        /\ slots' = slots
        /\ (Done(PlannerOps) /\ Num = Num') => (ret' = ret /\ Elems' = Elems)

C10_PlannerPure == [](C10_StoredOffsetsIgnored) /\ [][C10_CallFrame]_vars

\* C10 witness: the planner returned on two requests whose Offset fields it
\* has overwritten, the second one after padding.
C10_Witness ==
    /\ Done(PlannerOps)
    /\ Num >= 2
    /\ Elems[2].Offset > Elems[1].Size
    /\ ret = Elems[2].Offset + Elems[2].Size

====
